---- MODULE Spec2Model ----
(***************************************************************************)
(* Model of examples/map_synthesis/train_and_test_pix2pix.py: main()'s     *)
(* mode dispatch, train_phase (the trainer loop with its stop trigger,     *)
(* interval-triggered extensions and learning-rate shift) and test_phase   *)
(* (latest-snapshot lookup, inference, per-sample figure loop), all acting *)
(* on the files of the --out directory.                                    *)
(***************************************************************************)
EXTENDS Integers, Sequences, FiniteSets, TLC

VARIABLES
    pc,             \* position of the running invocation of main()
    run,            \* number of the invocation (1 = first launch)
    args,           \* argparse namespace of the running invocation
    exc,            \* uncaught exception that ended the invocation, or "none"
    calls,          \* phase functions main() has called, with the split passed
    files,          \* files of the --out directory (survive an invocation)
    wrote,          \* iterations whose generator snapshot the latest train_phase wrote
    frequency,      \* train_phase: effective frequency (line 210)
    patients,       \* stop_trigger.patience
    iteration,      \* trainer.updater.iteration
    observation,    \* trainer.observation: the validation loss reported, if any
    summary,        \* stop_trigger._summary: monitored values since the last check
    best,           \* stop_trigger.best
    count,          \* stop_trigger.count
    lr_G,           \* optimizer_G's learning rate, a rational <<num, den>>
    lr_D,           \* optimizer_D's learning rate
    t_G,            \* LinearShift._t of the generator's shift
    t_D,            \* LinearShift._t of the discriminator's shift
    snapshot_file,  \* test_phase: the snapshot loaded (<<>> before the load)
    test_files,     \* test_phase: test.files, a sequence of sample ids
    pred,           \* test_phase: infer.run()'s predictions
    uncert,         \* test_phase: infer.run()'s uncertainties
    i,              \* test_phase: number of loop steps completed
    acc_values,     \* test_phase: acc_values
    uncert_values   \* test_phase: uncert_values

vars == <<pc, run, args, exc, calls, files, wrote, frequency, patients,
          iteration, observation, summary, best, count, lr_G, lr_D, t_G, t_D,
          snapshot_file, test_files, pred, uncert, i, acc_values, uncert_values>>

trainVars == <<frequency, patients, iteration, observation, summary, best,
               count, lr_G, lr_D, t_G, t_D>>

testVars == <<snapshot_file, test_files, pred, uncert, i, acc_values, uncert_values>>

(***************************************************************************)
(* Bounds of the model.                                                    *)
(***************************************************************************)
MaxRuns == 2
MaxIteration == 4
MaxLoss == 1
MaxSamples == 2
MaxDefaultIteration == 165
MaxAbsIteration == 170
MaxAbsFrequency == 4

IterationValues == 1..MaxIteration
\* --frequency: the default and an explicit interval
FrequencyValues == {-1, 2}
\* --pinfall: the default, a value below 1 and a patience of 2
PinfallValues == {-1, 0, 2}
\* --lr, in units that keep the shifted rates exact
LrValues == {3}
LossValues == 0..MaxLoss

(***************************************************************************)
(* Values.                                                                 *)
(***************************************************************************)
Max(a, b) == IF a >= b THEN a ELSE b

SetMax(S) == CHOOSE x \in S : \A y \in S : y <= x

\* Extended numbers: np.inf and float('inf') next to the finite values.
Infinity == [inf |-> TRUE, n |-> 0]

Finite(n) == [inf |-> FALSE, n |-> n]

\* a < b on extended numbers whose finite parts are integers
Less(a, b) == IF a.inf THEN FALSE ELSE IF b.inf THEN TRUE ELSE a.n < b.n

RECURSIVE Digits(_)
Digits(n) == IF n < 10 THEN <<n>> ELSE Append(Digits(n \div 10), n % 10)

\* '%0wd' % n and '{:0w}'.format(n): at least w digits, zeros on the left
ZeroPad(n, w) ==
    LET d == Digits(n)
    IN  IF Len(d) >= w THEN d ELSE [k \in 1..(w - Len(d)) |-> 0] \o d

\* lexicographic order of digit strings (str.__lt__ / __eq__)
RECURSIVE SeqLeq(_, _)
SeqLeq(a, b) ==
    IF a = <<>> THEN TRUE
    ELSE IF b = <<>> THEN FALSE
    ELSE IF a[1] # b[1] THEN a[1] < b[1]
    ELSE SeqLeq(Tail(a), Tail(b))

(***************************************************************************)
(* The --out directory.                                                    *)
(***************************************************************************)
FileName(dir, stem, num, ext) == [dir |-> dir, stem |-> stem, num |-> num, ext |-> ext]

\* a write at logical time <<run, t>>: creates the file or replaces it
WriteFile(fs, name, t, content) ==
    {f \in fs : f.name # name} \cup {[name |-> name, mtime |-> <<run, t>>, content |-> content]}

JsonName(stem) == FileName("", stem, <<>>, ".json")

\* the generator's snapshot_object file name pattern (line 251)
GeneratorPrefix == "generator_iter_"

TrainerPrefix == "snapshot_iter_"

DiscriminatorPrefix == "discriminator_iter_"

\* '<prefix>{.updater.iteration:08}.pth'.format(trainer)
SnapshotName(prefix, it) == FileName("", prefix, ZeroPad(it, 8), ".pth")

\* 'validation/iter_{.updater.iteration:08}.png'
ValidationName(it) == FileName("validation", "iter_", ZeroPad(it, 8), ".png")

\* 'test/%03d.png' % i
FigureName(k) == FileName("test", "", ZeroPad(k, 3), ".png")

(***************************************************************************)
(* main(): argument parsing and mode dispatch.                             *)
(***************************************************************************)
NoArgs == [test_on_test |-> FALSE, test_on_valid |-> FALSE, iteration |-> 0,
           frequency |-> 0, pinfall |-> 0, lr |-> 0]

TrainReset ==
    /\ frequency = 0
    /\ patients = Infinity
    /\ iteration = 0
    /\ observation = <<>>
    /\ summary = <<>>
    /\ best = Infinity
    /\ count = 0
    /\ lr_G = <<0, 1>>
    /\ lr_D = <<0, 1>>
    /\ t_G = 0
    /\ t_D = 0

TestReset ==
    /\ snapshot_file = <<>>
    /\ test_files = <<>>
    /\ pred = <<>>
    /\ uncert = <<>>
    /\ i = 0
    /\ acc_values = <<>>
    /\ uncert_values = <<>>

Init ==
    /\ pc = "launch"
    /\ run = 1
    /\ args = NoArgs
    /\ exc = "none"
    /\ calls = <<>>
    /\ files = {}
    /\ wrote = {}
    /\ TrainReset
    /\ TestReset

\* parser.parse_args() (lines 426-467) and os.makedirs(args.out) (line 474)
ParseArgs(Flags, Iterations, Frequencies, Pinfalls, Lrs) ==
    /\ pc = "launch"
    /\ \E tt \in Flags, tv \in Flags, n \in Iterations, f \in Frequencies,
          p \in Pinfalls, l \in Lrs :
          args' = [test_on_test |-> tt, test_on_valid |-> tv, iteration |-> n,
                   frequency |-> f, pinfall |-> p, lr |-> l]
    /\ pc' = "main"
    /\ UNCHANGED <<run, exc, calls, files, wrote, trainVars, testVars>>

TestOnValidDataMutant == <<"test">>

\* line 501: the split handed to test_phase
TestOnValidData == <<"valid">>

\* line 508: the splits handed to train_phase
TrainData == <<"train", "valid">>

DispatchMutant ==
    /\ pc = "main"
    /\ IF args.test_on_valid
       THEN /\ calls' = Append(calls, [fn |-> "test_phase", data |-> TestOnValidData])
            /\ pc' = "test_phase"
            /\ exc' = exc
       ELSE IF args.test_on_test
       THEN /\ exc' = "RuntimeError"
            /\ pc' = "exit"
            /\ calls' = calls
       ELSE /\ pc' = "save_args"
            /\ UNCHANGED <<exc, calls>>
    /\ UNCHANGED <<run, args, files, wrote, trainVars, testVars>>

\* the if / elif / else of lines 497-502; the call of line 499 follows the raise
\* and is never reached
Dispatch ==
    /\ pc = "main"
    /\ IF args.test_on_test
       THEN /\ exc' = "RuntimeError"
            /\ pc' = "exit"
            /\ calls' = calls
       ELSE IF args.test_on_valid
       THEN /\ calls' = Append(calls, [fn |-> "test_phase", data |-> TestOnValidData])
            /\ pc' = "test_phase"
            /\ exc' = exc
       ELSE /\ pc' = "save_args"
            /\ UNCHANGED <<exc, calls>>
    /\ UNCHANGED <<run, args, files, wrote, trainVars, testVars>>

\* one of the four summaries of lines 503-506
SaveJson(at, stem, next) ==
    /\ pc = at
    /\ files' = WriteFile(files, JsonName(stem), 0, <<>>)
    /\ pc' = next
    /\ UNCHANGED <<run, args, exc, calls, wrote, trainVars, testVars>>

SaveArgs == SaveJson("save_args", "args", "save_model")

SaveModel == SaveJson("save_model", "model", "save_norm")

SaveNorm == SaveJson("save_norm", "norm", "save_augment")

SaveAugmentMutant ==
    /\ pc = "save_augment"
    /\ pc' = "call_train"
    /\ UNCHANGED <<run, args, exc, calls, files, wrote, trainVars, testVars>>

SaveAugment == SaveJson("save_augment", "augment", "call_train")

\* line 508
CallTrainPhase ==
    /\ pc = "call_train"
    /\ calls' = Append(calls, [fn |-> "train_phase", data |-> TrainData])
    /\ wrote' = {}
    /\ pc' = "train_phase"
    /\ UNCHANGED <<run, args, exc, files, trainVars, testVars>>

(***************************************************************************)
(* train_phase.                                                            *)
(***************************************************************************)
\* lines 176-193: discriminator.json, then both Adam optimizers with lr=args.lr
TrainSetup ==
    /\ pc = "train_phase"
    /\ files' = WriteFile(files, JsonName("discriminator"), 0, <<>>)
    /\ lr_G' = <<args.lr, 1>>
    /\ lr_D' = <<args.lr, 1>>
    /\ pc' = "frequency"
    /\ UNCHANGED <<run, args, exc, calls, wrote, frequency, patients, iteration,
                   observation, summary, best, count, t_G, t_D, testVars>>

FrequencyMutant(a) == IF a.frequency = -1 THEN a.iteration \div 80 ELSE a.frequency

\* line 210 (// is floor division, as \div is)
Frequency(a) ==
    IF a.frequency = -1 THEN Max(a.iteration \div 80, 1) ELSE Max(1, a.frequency)

ComputeFrequency ==
    /\ pc = "frequency"
    /\ frequency' = Frequency(args)
    /\ pc' = "build_trainer"
    /\ UNCHANGED <<run, args, exc, calls, files, wrote, patients, iteration,
                   observation, summary, best, count, lr_G, lr_D, t_G, t_D, testVars>>

PatientsMutant(pinfall) == Finite(Max(1, pinfall))

\* line 215
Patients(pinfall) == IF pinfall = -1 THEN Infinity ELSE Finite(Max(1, pinfall))

MaxTriggerMutant == args.iteration + 1

\* line 213: max_trigger=(args.iteration, 'iteration')
MaxTrigger == args.iteration

\* line 214: check_trigger=(frequency, 'iteration')
CheckTrigger == frequency

\* line 243
ValidatorTrigger == frequency

\* line 250
SnapshotTrigger == frequency

GeneratorSnapshotTriggerMutant == frequency + 1

\* line 252
GeneratorSnapshotTrigger == frequency

\* line 254
DiscriminatorSnapshotTrigger == frequency

\* lines 221-222: LinearShift('lr', (args.lr, 0.0), (args.iteration//2, args.iteration))
ShiftValuesG == <<args.lr, 0>>

ShiftTimesG == <<args.iteration \div 2, args.iteration>>

ShiftValuesD == <<args.lr, 0>>

ShiftTimesDMutant == <<args.iteration, args.iteration + 1>>

\* lines 225-226
ShiftTimesD == <<args.iteration \div 2, args.iteration>>

\* an interval trigger (period, 'iteration') asked at every iteration
IntervalTrigger(period, it) == it > 0 /\ it % period = 0

\* LinearShift._compute_next_value
LinearShiftValue(t, values, times) ==
    IF t <= times[1] THEN <<values[1], 1>>
    ELSE IF t >= times[2] THEN <<values[2], 1>>
    ELSE <<values[1] * (times[2] - times[1]) + (t - times[1]) * (values[2] - values[1]),
           times[2] - times[1]>>

\* lines 212-275: the stop trigger, the trainer and its extensions
BuildTrainer ==
    /\ pc = "build_trainer"
    /\ patients' = Patients(args.pinfall)
    /\ best' = Infinity
    /\ count' = 0
    /\ summary' = <<>>
    /\ iteration' = 0
    /\ observation' = <<>>
    /\ t_G' = 1
    /\ t_D' = 1
    /\ pc' = "run"
    /\ UNCHANGED <<run, args, exc, calls, files, wrote, frequency, lr_G, lr_D, testVars>>

\* line 279, trainer.run() up to its loop: every extension's initialize()
TrainerRun ==
    /\ pc = "run"
    /\ lr_G' = LinearShiftValue(t_G, ShiftValuesG, ShiftTimesG)
    /\ lr_D' = LinearShiftValue(t_D, ShiftValuesD, ShiftTimesD)
    /\ pc' = "stop_trigger"
    /\ UNCHANGED <<run, args, exc, calls, files, wrote, frequency, patients, iteration,
                   observation, summary, best, count, t_G, t_D, testVars>>

RECURSIVE Sum(_)
Sum(s) == IF s = <<>> THEN 0 ELSE s[1] + Sum(Tail(s))

\* DictSummary.compute_mean() of the monitored key
Mean(s) == Sum(s) \div Len(s)

\* EarlyStoppingTrigger._stop_condition: count >= patience
StopCondition(c, patience) == ~Less(Finite(c), patience)

\* line 279, the loop condition of trainer.run(): EarlyStoppingTrigger.__call__
StopTrigger ==
    /\ pc = "stop_trigger"
    /\ LET added == IF observation # <<>> THEN Append(summary, observation[1]) ELSE summary
       IN  IF IntervalTrigger(MaxTrigger, iteration)
           THEN /\ summary' = added
                /\ pc' = "exit"
                /\ UNCHANGED <<best, count>>
           ELSE IF ~IntervalTrigger(CheckTrigger, iteration) \/ observation = <<>>
           THEN /\ summary' = added
                /\ pc' = "iterate"
                /\ UNCHANGED <<best, count>>
           ELSE LET current == Finite(Mean(added))
                    improved == Less(current, best)
                    c == IF improved THEN 0 ELSE count + 1
                IN  /\ summary' = <<>>
                    /\ best' = IF improved THEN current ELSE best
                    /\ count' = c
                    /\ pc' = IF StopCondition(c, patients) THEN "exit" ELSE "iterate"
    /\ UNCHANGED <<run, args, exc, calls, files, wrote, frequency, patients, iteration,
                   observation, lr_G, lr_D, t_G, t_D, testVars>>

\* line 279, the loop body of trainer.run(): updater.update(), then every
\* extension whose trigger fires (Validator, both LinearShifts, the snapshots)
TrainerIterate(Losses) ==
    /\ pc = "iterate"
    /\ LET it == iteration + 1
           validated == IntervalTrigger(ValidatorTrigger, it)
           f1 == IF validated
                 THEN WriteFile(files, ValidationName(it), it, <<>>) ELSE files
           f2 == IF IntervalTrigger(SnapshotTrigger, it)
                 THEN WriteFile(f1, SnapshotName(TrainerPrefix, it), it, <<>>) ELSE f1
           f3 == IF IntervalTrigger(GeneratorSnapshotTrigger, it)
                 THEN WriteFile(f2, SnapshotName(GeneratorPrefix, it), it, <<>>) ELSE f2
           f4 == IF IntervalTrigger(DiscriminatorSnapshotTrigger, it)
                 THEN WriteFile(f3, SnapshotName(DiscriminatorPrefix, it), it, <<>>) ELSE f3
       IN  /\ iteration' = it
           /\ \E loss \in (IF validated THEN Losses ELSE {0}) :
                 observation' = IF validated THEN <<loss>> ELSE <<>>
           /\ files' = f4
           /\ wrote' = IF IntervalTrigger(GeneratorSnapshotTrigger, it)
                       THEN wrote \cup {it} ELSE wrote
    /\ t_G' = t_G + 1
    /\ t_D' = t_D + 1
    /\ lr_G' = LinearShiftValue(t_G', ShiftValuesG, ShiftTimesG)
    /\ lr_D' = LinearShiftValue(t_D', ShiftValuesD, ShiftTimesD)
    /\ pc' = "stop_trigger"
    /\ UNCHANGED <<run, args, exc, calls, frequency, patients, summary, best, count,
                   testVars>>

(***************************************************************************)
(* test_phase.                                                             *)
(***************************************************************************)
\* find_latest_snapshot's candidates: the entries of the directory itself whose
\* name starts with the pattern's text before '{' and ends with its text after '}'
FindSnapshotFiles(prefix, fs) ==
    {f \in fs : f.name.dir = "" /\ f.name.stem = prefix /\ f.name.ext = ".pth"}

\* (mtime, name) order of the candidates
OlderOrSame(f, g) ==
    \/ f.mtime[1] < g.mtime[1]
    \/ f.mtime[1] = g.mtime[1] /\ f.mtime[2] < g.mtime[2]
    \/ f.mtime = g.mtime /\ SeqLeq(f.name.num, g.name.num)

\* find_latest_snapshot: the candidate modified last
FindLatestSnapshot(prefix, fs) ==
    LET found == FindSnapshotFiles(prefix, fs)
    IN  CHOOSE f \in found : \A g \in found : OlderOrSame(g, f)

SearchPrefixMutant == "snapshot_iter_"

\* line 290: the pattern handed to find_latest_snapshot
SearchPrefix == "generator_iter_"

\* lines 287-292: look the latest generator snapshot up and load it
LoadSnapshot ==
    /\ pc = "test_phase"
    /\ IF FindSnapshotFiles(SearchPrefix, files) = {}
       THEN /\ exc' = "FileNotFoundError"
            /\ pc' = "exit"
            /\ snapshot_file' = snapshot_file
       ELSE /\ snapshot_file' = <<FindLatestSnapshot(SearchPrefix, files)>>
            /\ pc' = "infer"
            /\ exc' = exc
    /\ UNCHANGED <<run, args, calls, files, wrote, trainVars, test_files, pred, uncert,
                   i, acc_values, uncert_values>>

\* the datasets test_phase may be handed: sample ids, none twice
SampleLists ==
    {s \in UNION {[1..n -> 1..MaxSamples] : n \in 0..MaxSamples} :
        \A a, b \in DOMAIN s : a # b => s[a] # s[b]}

\* lines 294-305: infer.run() over the unshuffled iterator, one prediction and
\* one uncertainty per sample, in dataset order
Infer ==
    /\ pc = "infer"
    /\ \E fl \in SampleLists :
          /\ test_files' = fl
          /\ pred' = [k \in 1..Len(fl) |-> <<"p", fl[k]>>]
          /\ uncert' = [k \in 1..Len(fl) |-> <<"u", fl[k]>>]
    /\ pc' = "evaluate"
    /\ UNCHANGED <<run, args, exc, calls, files, wrote, trainVars, snapshot_file, i,
                   acc_values, uncert_values>>

\* lines 309-321
Evaluate ==
    /\ pc = "evaluate"
    /\ acc_values' = <<>>
    /\ uncert_values' = <<>>
    /\ i' = 0
    /\ pc' = "loop"
    /\ UNCHANGED <<run, args, exc, calls, files, wrote, trainVars, snapshot_file,
                   test_files, pred, uncert>>

Min(a, b) == IF a <= b THEN a ELSE b

\* test.files['image'] and test.files['label']
ImageFiles == [k \in 1..Len(test_files) |-> <<"image", test_files[k]>>]

LabelFiles == [k \in 1..Len(test_files) |-> <<"label", test_files[k]>>]

ZippedMutant ==
    LET n == Min(Min(Len(pred), Len(uncert)), Min(Len(ImageFiles), Len(LabelFiles)))
    IN  [k \in 1..n |-> <<pred[n + 1 - k], uncert[k], ImageFiles[k], LabelFiles[k]>>]

\* lines 323-325: zip(pred, uncert, test.files['image'], test.files['label'])
Zipped ==
    LET n == Min(Min(Len(pred), Len(uncert)), Min(Len(ImageFiles), Len(LabelFiles)))
    IN  [k \in 1..n |-> <<pred[k], uncert[k], ImageFiles[k], LabelFiles[k]>>]

\* lines 326-363: one step of the loop
LoopStep ==
    /\ pc = "loop"
    /\ i < Len(Zipped)
    /\ LET p == Zipped[i + 1][1]
           u == Zipped[i + 1][2]
           imf == Zipped[i + 1][3]
           lbf == Zipped[i + 1][4]
       IN  /\ acc_values' = Append(acc_values, <<"mae", p, lbf>>)
           /\ uncert_values' = Append(uncert_values, <<"mean", u>>)
           /\ files' = WriteFile(files, FigureName(i), i + 1, <<imf, p, lbf, u>>)
    /\ i' = i + 1
    /\ UNCHANGED <<pc, run, args, exc, calls, wrote, trainVars, snapshot_file,
                   test_files, pred, uncert>>

\* the loop of line 323 is exhausted: test_phase and main() return
LoopEnd ==
    /\ pc = "loop"
    /\ i = Len(Zipped)
    /\ pc' = "exit"
    /\ UNCHANGED <<run, args, exc, calls, files, wrote, trainVars, testVars>>

(***************************************************************************)
(* The script is launched again on the same --out directory (line 512).    *)
(***************************************************************************)
Relaunch ==
    /\ pc = "exit"
    /\ run < MaxRuns
    /\ run' = run + 1
    /\ pc' = "launch"
    /\ args' = NoArgs
    /\ exc' = "none"
    /\ calls' = <<>>
    /\ frequency' = 0
    /\ patients' = Infinity
    /\ iteration' = 0
    /\ observation' = <<>>
    /\ summary' = <<>>
    /\ best' = Infinity
    /\ count' = 0
    /\ lr_G' = <<0, 1>>
    /\ lr_D' = <<0, 1>>
    /\ t_G' = 0
    /\ t_D' = 0
    /\ snapshot_file' = <<>>
    /\ test_files' = <<>>
    /\ pred' = <<>>
    /\ uncert' = <<>>
    /\ i' = 0
    /\ acc_values' = <<>>
    /\ uncert_values' = <<>>
    /\ UNCHANGED <<files, wrote>>

(***************************************************************************)
(* Specifications.                                                         *)
(***************************************************************************)
TrainSteps(Losses) ==
    \/ SaveArgs
    \/ SaveModel
    \/ SaveNorm
    \/ SaveAugment
    \/ CallTrainPhase
    \/ TrainSetup
    \/ ComputeFrequency
    \/ BuildTrainer
    \/ TrainerRun
    \/ StopTrigger
    \/ TrainerIterate(Losses)

TestSteps ==
    \/ LoadSnapshot
    \/ Infer
    \/ Evaluate
    \/ LoopStep
    \/ LoopEnd

Next ==
    \/ ParseArgs(BOOLEAN, IterationValues, FrequencyValues, PinfallValues, LrValues)
    \/ Dispatch
    \/ TrainSteps(LossValues)
    \/ TestSteps
    \/ Relaunch

Spec == Init /\ [][Next]_vars

\* a single training run with the default --frequency and --pinfall
NextDefault ==
    \/ ParseArgs({FALSE}, 1..MaxDefaultIteration, {-1}, {-1}, LrValues)
    \/ Dispatch
    \/ TrainSteps({0})

SpecDefault == Init /\ [][NextDefault]_vars

\* line 210 alone, over --iteration and --frequency of either sign: train_phase
\* has been entered by a first launch and has set up its optimizers
InitFrequency ==
    /\ pc = "frequency"
    /\ run = 1
    /\ \E n \in (-MaxAbsIteration)..MaxAbsIteration,
          f \in (-MaxAbsFrequency)..MaxAbsFrequency :
          args = [test_on_test |-> FALSE, test_on_valid |-> FALSE, iteration |-> n,
                  frequency |-> f, pinfall |-> -1, lr |-> 0]
    /\ exc = "none"
    /\ calls = <<[fn |-> "train_phase", data |-> TrainData]>>
    /\ files = {[name |-> JsonName(stem), mtime |-> <<1, 0>>, content |-> <<>>] :
                    stem \in {"args", "model", "norm", "augment", "discriminator"}}
    /\ wrote = {}
    /\ TrainReset
    /\ TestReset

SpecFrequency == InitFrequency /\ [][ComputeFrequency]_vars

(***************************************************************************)
(* Properties.                                                             *)
(***************************************************************************)
RECURSIVE DigitsValue(_)
DigitsValue(d) ==
    IF d = <<>> THEN 0 ELSE 10 * DigitsValue(SubSeq(d, 1, Len(d) - 1)) + d[Len(d)]

WrittenNow == {f \in files : f.mtime[1] = run}

Training == calls # <<>> /\ calls[1].fn = "train_phase"

Testing == calls # <<>> /\ calls[1].fn = "test_phase"

Looping == pc \in {"stop_trigger", "iterate"} \/ (pc = "exit" /\ Training)

\* C1: with --test_on_test set (whatever --test_on_valid is) main() goes from the
\* dispatch straight to its end with a RuntimeError: no phase function is called
\* and the invocation writes no file, so none of the JSON summaries.
C1_TestOnTestRaises ==
    args.test_on_test =>
        /\ pc \in {"main", "exit"}
        /\ pc = "exit" => exc = "RuntimeError"
        /\ calls = <<>>
        /\ WrittenNow = {}

C1_Witness ==
    /\ args.test_on_test
    /\ args.test_on_valid
    /\ pc = "exit"
    /\ exc = "RuntimeError"

\* C2: past the dispatch an invocation is on exactly one path, fixed by the two
\* flags: the guard (RuntimeError, no call), test_phase on the validation split,
\* or train_phase on the train and validation splits; at most one call is made.
C2_ExactlyOnePath ==
    /\ Len(calls) <= 1
    /\ pc \notin {"launch", "main"} =>
          IF args.test_on_test
          THEN exc = "RuntimeError" /\ calls = <<>>
          ELSE IF args.test_on_valid
          THEN /\ calls = <<[fn |-> "test_phase", data |-> <<"valid">>]>>
               /\ exc # "RuntimeError"
               /\ pc \in {"test_phase", "infer", "evaluate", "loop", "exit"}
          ELSE /\ exc = "none"
               /\ \/ calls = <<>> /\ pc \in {"save_args", "save_model", "save_norm",
                                             "save_augment", "call_train"}
                  \/ /\ calls = <<[fn |-> "train_phase", data |-> <<"train", "valid">>]>>
                     /\ pc \in {"train_phase", "frequency", "build_trainer", "run",
                                "stop_trigger", "iterate", "exit"}

C2_Witness ==
    /\ ~args.test_on_test
    /\ args.test_on_valid
    /\ pc = "loop"
    /\ i = 1

\* C3: once train_phase is entered the invocation has written args, model.json,
\* norm.json and augment.json; once an iteration has run it has written
\* discriminator.json; an invocation in either test mode writes no JSON file.
C3_JsonBeforeTraining ==
    /\ Training =>
          \A stem \in {"args", "model", "norm", "augment"} :
              \E f \in WrittenNow : f.name = [dir |-> "", stem |-> stem, num |-> <<>>, ext |-> ".json"]
    /\ (Training /\ iteration >= 1) =>
          \E f \in WrittenNow :
              f.name = [dir |-> "", stem |-> "discriminator", num |-> <<>>, ext |-> ".json"]
    /\ (args.test_on_test \/ args.test_on_valid) =>
          \A f \in WrittenNow : f.name.ext # ".json"

C3_Witness ==
    /\ Training
    /\ iteration = 1
    /\ pc = "stop_trigger"

\* C4: while the trainer loops, for every iteration j reached so far the run has
\* written the trainer, generator and discriminator snapshots numbered j (8
\* digits, zeros on the left) and has validated at j exactly when j is a positive
\* multiple of the effective frequency; it has written no other snapshot.
C4_SnapshotsAtCheckpoints ==
    (Looping /\ Training) =>
        /\ \A j \in 1..iteration :
              \A kind \in {<<"", "snapshot_iter_", ".pth">>, <<"", "generator_iter_", ".pth">>,
                           <<"", "discriminator_iter_", ".pth">>,
                           <<"validation", "iter_", ".png">>} :
                  (j % frequency = 0) <=>
                      \E f \in WrittenNow :
                          /\ f.name.dir = kind[1]
                          /\ f.name.stem = kind[2]
                          /\ f.name.ext = kind[3]
                          /\ Len(f.name.num) = 8
                          /\ DigitsValue(f.name.num) = j
        /\ \A f \in WrittenNow :
              f.name.ext \in {".pth", ".png"} =>
                  /\ Len(f.name.num) = 8
                  /\ DigitsValue(f.name.num) \in 1..iteration
                  /\ DigitsValue(f.name.num) % frequency = 0

C4_Witness ==
    /\ Training
    /\ pc = "stop_trigger"
    /\ frequency = 2
    /\ iteration = 4

\* C5: with --frequency -1 and --pinfall -1 a training run never gets stuck before
\* its end (the loop body is always able to run, and every other state short of
\* the exit has a step), never passes --iteration, ends without an exception after
\* exactly --iteration iterations, and has by then written a generator snapshot.
C5_DefaultRunCompletes ==
    /\ iteration <= args.iteration
    /\ pc \notin {"exit", "iterate"} => ENABLED NextDefault
    /\ pc = "exit" =>
          /\ exc = "none"
          /\ iteration = args.iteration
          /\ \E f \in files : /\ f.name.dir = ""
                              /\ f.name.stem = "generator_iter_"
                              /\ f.name.ext = ".pth"

C5_Witness ==
    /\ pc = "exit"
    /\ args.iteration >= 160
    /\ frequency = 2
    /\ iteration = args.iteration

\* C6: in the figure loop, after every step the accuracy list and the uncertainty
\* list are as long as the number of figures this run has written; the figures
\* are numbered 000, 001, ... and figure k is built from the k-th sample's image
\* file, prediction, label file and uncertainty; the loop ends with one figure
\* per sample.
C6_OneFigurePerSample ==
    (Testing /\ pc \in {"loop", "exit"}) =>
        LET figures == {f \in WrittenNow : f.name.dir = "test"}
        IN  /\ Len(acc_values) = i
            /\ Len(uncert_values) = i
            /\ Cardinality(figures) = i
            /\ \A k \in 0..(i - 1) :
                  \E f \in figures :
                      /\ f.name.ext = ".png"
                      /\ Len(f.name.num) = 3
                      /\ DigitsValue(f.name.num) = k
                      /\ f.content = << <<"image", test_files[k + 1]>>, <<"p", test_files[k + 1]>>,
                                        <<"label", test_files[k + 1]>>, <<"u", test_files[k + 1]>> >>
            /\ pc = "exit" => i = Len(test_files)

C6_Witness ==
    /\ Testing
    /\ pc = "exit"
    /\ test_files = <<2, 1>>
    /\ i = 2

C8_FrequencyAtLeastOne ==
    pc = "build_trainer" =>
        /\ frequency >= 1
        /\ args.frequency = -1 =>
              IF args.iteration < 80 THEN frequency = 1
              ELSE 80 * frequency <= args.iteration /\ args.iteration < 80 * (frequency + 1)
        /\ args.frequency # -1 =>
              IF args.frequency < 1 THEN frequency = 1 ELSE frequency = args.frequency

C8_Witness ==
    /\ pc = "build_trainer"
    /\ args.frequency = -1
    /\ args.iteration = 160
    /\ frequency = 2

C10_State ==
    (Training /\ pc \in {"stop_trigger", "iterate"}) =>
        LET t == iteration + 1
            n == args.iteration
            h == args.iteration \div 2
        IN  /\ lr_G[1] * lr_D[2] = lr_D[1] * lr_G[2]
            /\ lr_G[2] > 0
            /\ lr_D[2] > 0
            /\ 0 <= lr_G[1]
            /\ lr_G[1] <= args.lr * lr_G[2]
            /\ IF t <= h THEN lr_G[1] = args.lr * lr_G[2]
               ELSE IF t >= n THEN lr_G[1] = 0
               ELSE lr_G[1] * (n - h) = args.lr * (n - t) * lr_G[2]

\* No step of the trainer raises either rate.
C10_Step ==
    (Training /\ pc \in {"run", "stop_trigger", "iterate"}) =>
        /\ lr_G'[1] * lr_G[2] <= lr_G[1] * lr_G'[2]
        /\ lr_D'[1] * lr_D[2] <= lr_D[1] * lr_D'[2]

\* C10: the rate in force for the next update (number iteration + 1) is the same
\* in both optimizers, lies between 0 and --lr, equals --lr up to update
\* --iteration // 2, falls on the straight line from there to 0 at update
\* --iteration, and no step of the trainer raises it.
C10_LearningRateShift == [][C10_Step]_vars /\ []C10_State

C10_Witness ==
    /\ Training
    /\ pc = "iterate"
    /\ 0 < lr_G[1]
    /\ lr_G[1] < args.lr * lr_G[2]

====
